---- MODULE Spec2Model ----
(***************************************************************************)
(* Model of the calculation core of APP_Calculo.py: the formula tokenizer, *)
(* the recursive-descent formula parser, the formatter, the atomic-weight  *)
(* lookup and the stoichiometry routines built on them.                    *)
(*                                                                         *)
(* Text is a sequence of one-character strings.  An element symbol is the  *)
(* sequence of its characters (<<"C","u">>).  An atom-count map (a Python  *)
(* dict) is a function from symbols to integers.  A Python float is an     *)
(* exact rational: masses are integers counted in hundredths of g/mol and  *)
(* a quotient is kept as a record [num, den] with den > 0.                 *)
(***************************************************************************)
EXTENDS Integers, Sequences, FiniteSets, TLC

VARIABLES pt, call, result, run

vars == <<pt, call, result, run>>

-----------------------------------------------------------------------------
(* Characters and the classes of _token_pat                                *)

DotChars == {".", "·"}

LParenChars == {"(", "[", "{"}

RParenChars == {")", "]", "}"}

DigitSeq == <<"0", "1", "2", "3", "4", "5", "6", "7", "8", "9">>

DigitChars == {DigitSeq[d] : d \in 1..Len(DigitSeq)}

UpperChars == {"C", "D", "H", "N", "O", "P", "S"}

LowerChars == {"a", "u"}

SpaceChars == {" "}

\* Code points of the letters the model uses (Python compares str by code point).
ord == ("C" :> 67) @@ ("D" :> 68) @@ ("H" :> 72) @@ ("N" :> 78) @@ ("O" :> 79)
       @@ ("P" :> 80) @@ ("S" :> 83) @@ ("a" :> 97) @@ ("u" :> 117)

\* int(c) of one decimal digit character.
DigitValue(c) == (CHOOSE d \in 1..Len(DigitSeq) : DigitSeq[d] = c) - 1

\* int(val) of a digit string (leading zeros allowed).
RECURSIVE int(_)
int(digits) ==
    IF digits = <<>> THEN 0
    ELSE 10 * int(SubSeq(digits, 1, Len(digits) - 1)) + DigitValue(digits[Len(digits)])

\* str(n) of an integer.
RECURSIVE str(_)
str(n) ==
    IF n < 0 THEN <<"-">> \o str(0 - n)
    ELSE IF n < 10 THEN <<DigitSeq[n + 1]>>
    ELSE str(n \div 10) \o <<DigitSeq[(n % 10) + 1]>>

-----------------------------------------------------------------------------
(* Errors.  The code raises FormulaParseError / RuntimeError / ValueError / *)
(* ZeroDivisionError; the parser's FormulaParseErrors are told apart by    *)
(* their message and carry the name the specification gives them.          *)

NoError == "none"

UnrecognizedToken == "UnrecognizedToken"

UnclosedGroup == "UnclosedGroup"

ExtraClosingParen == "ExtraClosingParen"

DanglingMultiplier == "DanglingMultiplier"

UnknownElement == "UnknownElement"

DataProviderUnavailable == "DataProviderUnavailable"

NotIntegerMultiple == "NotIntegerMultiple"

ZeroMolarMass == "ZeroMolarMass"

ZeroDivisionError == "ZeroDivisionError"

NoPositiveQuantity == "NoPositiveQuantity"

-----------------------------------------------------------------------------
(* tokenize                                                                *)

\* Length of the longest run of characters of class cls starting at pos (1-based).
RECURSIVE RunLength(_, _, _)
RunLength(formula, pos, cls) ==
    IF pos <= Len(formula) /\ formula[pos] \in cls
    THEN 1 + RunLength(formula, pos + 1, cls)
    ELSE 0

Token(kind, val) == [kind |-> kind, val |-> val]

\* _token_pat.match(formula, pos): the token matched at pos, or kind "nomatch".
\* The alternatives start with disjoint character classes, so at most one applies.
token_pat(formula, pos) ==
    LET c == formula[pos] IN
    IF c \in DotChars THEN Token("dot", <<c>>)
    ELSE IF c \in LParenChars THEN Token("lparen", <<c>>)
    ELSE IF c \in RParenChars THEN Token("rparen", <<c>>)
    ELSE IF c \in DigitChars
        THEN Token("number", SubSeq(formula, pos, pos + RunLength(formula, pos, DigitChars) - 1))
    ELSE IF c \in UpperChars
        THEN IF pos < Len(formula) /\ formula[pos + 1] \in LowerChars
             THEN Token("elem", <<c, formula[pos + 1]>>)
             ELSE Token("elem", <<c>>)
    ELSE IF c \in SpaceChars
        THEN Token("space", SubSeq(formula, pos, pos + RunLength(formula, pos, SpaceChars) - 1))
    ELSE Token("nomatch", <<>>)

\* The tokens of formula from pos on, appended to acc; err when no alternative matches.
RECURSIVE TokenizeFrom(_, _, _)
TokenizeFrom(formula, pos, acc) ==
    IF pos > Len(formula) THEN [err |-> NoError, tokens |-> acc]
    ELSE LET m == token_pat(formula, pos) IN
         IF m.kind = "nomatch" THEN [err |-> UnrecognizedToken, tokens |-> acc]
         ELSE TokenizeFrom(formula, pos + Len(m.val),
                           IF m.kind # "space" THEN Append(acc, m) ELSE acc)

tokenize(formula) == TokenizeFrom(formula, 1, <<>>)

-----------------------------------------------------------------------------
(* Atom-count maps                                                         *)

EmptyCounts == [el \in {} |-> 0]

\* counts.get(el, 0)
Get(counts, el) == IF el \in DOMAIN counts THEN counts[el] ELSE 0

\* counts[el] = counts.get(el, 0) + n
AddCount(counts, el, n) ==
    [e \in DOMAIN counts \cup {el} |-> IF e = el THEN Get(counts, el) + n ELSE counts[e]]

multiply_counts(counts, k) == [el \in DOMAIN counts |-> counts[el] * k]

merge_counts(a, b) == [el \in DOMAIN a \cup DOMAIN b |-> Get(a, el) + Get(b, el)]

-----------------------------------------------------------------------------
(* parse_formula                                                           *)

\* The cursor i is 0-based as in the code: tokens[i] of the code is tokens[i + 1] here.
KindAt(tokens, i) == IF i < Len(tokens) THEN tokens[i + 1].kind ELSE "end"

\* "mult = 1; if i < len(tokens) and tokens[i][0] == 'number': mult = int(...); i += 1"
OptNumber(tokens, i) ==
    IF KindAt(tokens, i) = "number"
    THEN [mult |-> int(tokens[i + 1].val), i |-> i + 1]
    ELSE [mult |-> 1, i |-> i]

Unit(err, counts, i) == [err |-> err, counts |-> counts, i |-> i]

\* ClosesGroup without its test for the end of the tokens.
ClosesGroupOrEnd(tokens, i) == KindAt(tokens, i) \in {"rparen", "end"}

\* The check after a nested unit: the cursor must be at a closing bracket.
ClosesGroup(tokens, i) == KindAt(tokens, i) = "rparen"

RECURSIVE parse_unit(_, _)
RECURSIVE UnitLoop(_, _, _)
\* One evaluation of the loop condition and body of parse_unit, then the rest of the loop.
UnitLoop(tokens, i, counts) ==
    LET kind == KindAt(tokens, i) IN
    IF kind = "end" \/ kind = "rparen" THEN Unit(NoError, counts, i)
    ELSE IF kind = "dot" THEN
        LET right == parse_unit(tokens, i + 1) IN
        IF right.err # NoError THEN right
        ELSE Unit(NoError, merge_counts(counts, right.counts), right.i)
    ELSE IF kind = "elem" THEN
        LET n == OptNumber(tokens, i + 1) IN
        UnitLoop(tokens, n.i, AddCount(counts, tokens[i + 1].val, n.mult))
    ELSE IF kind = "lparen" THEN
        LET inner == parse_unit(tokens, i + 1) IN
        IF inner.err # NoError THEN inner
        ELSE IF ~ClosesGroup(tokens, inner.i) THEN Unit(UnclosedGroup, counts, inner.i)
        ELSE LET n == OptNumber(tokens, inner.i + 1) IN
             UnitLoop(tokens, n.i, merge_counts(counts, multiply_counts(inner.counts, n.mult)))
    ELSE \* kind = "number"
        LET mult == int(tokens[i + 1].val)
            next == KindAt(tokens, i + 1)
        IN
        IF next \notin {"elem", "lparen"} THEN Unit(DanglingMultiplier, counts, i + 1)
        ELSE IF next = "elem" THEN
            LET n == OptNumber(tokens, i + 2) IN
            UnitLoop(tokens, n.i, AddCount(counts, tokens[i + 2].val, mult * n.mult))
        ELSE
            LET inner == parse_unit(tokens, i + 2) IN
            IF inner.err # NoError THEN inner
            ELSE IF ~ClosesGroup(tokens, inner.i) THEN Unit(UnclosedGroup, counts, inner.i)
            ELSE LET n == OptNumber(tokens, inner.i + 1) IN
                 UnitLoop(tokens, n.i,
                          merge_counts(counts, multiply_counts(inner.counts, mult * n.mult)))

parse_unit(tokens, i) == UnitLoop(tokens, i, EmptyCounts)

\* TopLevelCheck without the test for a leftover closing bracket.
TopLevelUnchecked(tokens, total) == total

\* The check after the top-level unit (lines 118-119).
TopLevelCheck(tokens, total) ==
    IF total.err # NoError THEN total
    ELSE IF KindAt(tokens, total.i) = "rparen" THEN Unit(ExtraClosingParen, total.counts, total.i)
    ELSE total

\* parse_formula on a token sequence.
ParseTokens(tokens) == TopLevelCheck(tokens, parse_unit(tokens, 0))

parse_formula(formula) ==
    LET t == tokenize(formula) IN
    IF t.err # NoError THEN Unit(t.err, EmptyCounts, 0)
    ELSE ParseTokens(t.tokens)

-----------------------------------------------------------------------------
(* format_formula                                                          *)

\* a < b for Python str, as sequences of characters.
RECURSIVE StrLess(_, _)
StrLess(a, b) ==
    IF b = <<>> THEN FALSE
    ELSE IF a = <<>> THEN TRUE
    ELSE IF a[1] # b[1] THEN ord[a[1]] < ord[b[1]]
    ELSE StrLess(Tail(a), Tail(b))

\* order_key: C first, H second, the rest after.
OrderRank(el) == IF el = <<"C">> THEN 0 ELSE IF el = <<"H">> THEN 1 ELSE 2

KeyLess(a, b) ==
    \/ OrderRank(a) < OrderRank(b)
    \/ OrderRank(a) = OrderRank(b) /\ StrLess(a, b)

\* sorted(keys, key=order_key)
RECURSIVE SortedKeys(_)
SortedKeys(keys) ==
    IF keys = {} THEN <<>>
    ELSE LET first == CHOOSE a \in keys : \A b \in keys \ {a} : KeyLess(a, b)
         IN <<first>> \o SortedKeys(keys \ {first})

\* FormatPart with the numeral dropped for every count up to 1.
FormatPartDropsSmall(el, n) == IF n <= 1 THEN el ELSE el \o str(n)

\* f"{el}{'' if n==1 else n}"
FormatPart(el, n) == IF n = 1 THEN el ELSE el \o str(n)

RECURSIVE JoinParts(_, _)
JoinParts(order, counts) ==
    IF order = <<>> THEN <<>>
    ELSE FormatPart(order[1], counts[order[1]]) \o JoinParts(Tail(order), counts)

format_formula(counts) == JoinParts(SortedKeys(DOMAIN counts), counts)

-----------------------------------------------------------------------------
(* Floats as exact rationals                                               *)

Abs(x) == IF x < 0 THEN 0 - x ELSE x

\* round(num / den) for den > 0: to the nearest integer, a tie to the even one.
PyRound(num, den) ==
    LET q == num \div den
        r == num - q * den
    IN IF 2 * r < den THEN q
       ELSE IF 2 * r > den THEN q + 1
       ELSE IF q % 2 = 0 THEN q ELSE q + 1

\* abs(num / den - n) > tn / td, for den > 0 and td > 0.
FartherThan(num, den, n, tn, td) == Abs(num - n * den) * td > tn * den

-----------------------------------------------------------------------------
(* get_atomic_weight and the periodictable module                          *)

\* The deuterium mass of line 23, 2.01410177812, at the model's resolution of 0.01 g/mol.
D_MASS == 201

\* pt after the import guard: loaded = FALSE is "pt = None"; mass is the table of
\* element masses getattr(pt, symbol).mass reads, in hundredths of g/mol.
PtModule(loaded, mass) == [loaded |-> loaded, mass |-> mass]

NoTable == [el \in {} |-> 0]

\* The masses of the periodictable package for the elements the model uses
\* (the package also has an entry D).
StdTable ==
    (<<"H">> :> 101) @@ (<<"C">> :> 1201) @@ (<<"N">> :> 1401) @@ (<<"O">> :> 1600)
    @@ (<<"S">> :> 3206) @@ (<<"C", "u">> :> 6355) @@ (<<"D">> :> 201)

\* A substitute table: other masses, a different entry D, and no copper.
AltTable ==
    (<<"H">> :> 100) @@ (<<"C">> :> 1200) @@ (<<"O">> :> 1600) @@ (<<"D">> :> 300)

\* A table without any entry D.
NoDTable == (<<"H">> :> 101) @@ (<<"O">> :> 1600)

Weight(err, val) == [err |-> err, val |-> val]

\* get_atomic_weight with the table consulted before the deuterium case.
get_atomic_weight_TableFirst(p, symbol) ==
    IF ~p.loaded THEN Weight(DataProviderUnavailable, 0)
    ELSE IF symbol \in DOMAIN p.mass THEN Weight(NoError, p.mass[symbol])
    ELSE IF symbol = <<"D">> THEN Weight(NoError, D_MASS)
    ELSE Weight(UnknownElement, 0)

get_atomic_weight(p, symbol) ==
    IF ~p.loaded THEN Weight(DataProviderUnavailable, 0)
    ELSE IF symbol = <<"D">> THEN Weight(NoError, D_MASS)
    ELSE IF symbol \in DOMAIN p.mass THEN Weight(NoError, p.mass[symbol])
    ELSE Weight(UnknownElement, 0)

-----------------------------------------------------------------------------
(* molar_mass, percent_composition                                         *)

\* sum(get_atomic_weight(el) * n for el, n in counts.items()), every weight known.
RECURSIVE SumMass(_, _, _)
SumMass(p, counts, els) ==
    IF els = {} THEN 0
    ELSE LET el == CHOOSE e \in els : TRUE IN
         get_atomic_weight(p, el).val * counts[el] + SumMass(p, counts, els \ {el})

\* The sum of line 124 / 159: the first failing get_atomic_weight raises.
MassOfCounts(p, counts) ==
    IF DOMAIN counts # {} /\ ~p.loaded THEN Weight(DataProviderUnavailable, 0)
    ELSE IF \E el \in DOMAIN counts : get_atomic_weight(p, el).err # NoError
        THEN Weight(UnknownElement, 0)
    ELSE Weight(NoError, SumMass(p, counts, DOMAIN counts))

molar_mass(p, formula) ==
    LET parsed == parse_formula(formula) IN
    IF parsed.err # NoError THEN Weight(parsed.err, 0)
    ELSE MassOfCounts(p, parsed.counts)

Percent(err, comp, total_mm) == [err |-> err, comp |-> comp, total_mm |-> total_mm]

\* The division of line 129 for a non-empty counts map.
PercentOf(p, counts, total_mm) ==
    IF total_mm = 0 THEN Percent(ZeroDivisionError, EmptyCounts, total_mm)
    ELSE Percent(NoError,
                 [el \in DOMAIN counts |->
                    [num |-> 100 * get_atomic_weight(p, el).val * counts[el], den |-> total_mm]],
                 total_mm)

percent_composition(p, formula) ==
    LET parsed == parse_formula(formula)
        total == molar_mass(p, formula)
    IN IF parsed.err # NoError THEN Percent(parsed.err, EmptyCounts, 0)
       ELSE IF total.err # NoError THEN Percent(total.err, EmptyCounts, 0)
       ELSE IF DOMAIN parsed.counts = {} THEN Percent(NoError, EmptyCounts, total.val)
       ELSE PercentOf(p, parsed.counts, total.val)

-----------------------------------------------------------------------------
(* molecular_formula                                                       *)

Text(err, text, counts, k) == [err |-> err, text |-> text, counts |-> counts, k |-> k]

\* "if k <= 0 or abs(ratio - k) > 0.03", ratio = target / emp_mm, emp_mm > 0.
NotMultiple(target, emp_mm, k) == k <= 0 \/ FartherThan(target, emp_mm, k, 3, 100)

\* Lines 160-166, from the empirical counts and their mass.
ScaleToTarget(emp_counts, emp_mm, target) ==
    IF emp_mm = 0 THEN Text(ZeroDivisionError, <<>>, emp_counts, 0)
    ELSE LET k == PyRound(target, emp_mm) IN
         IF NotMultiple(target, emp_mm, k) THEN Text(NotIntegerMultiple, <<>>, emp_counts, k)
         ELSE LET scaled == multiply_counts(emp_counts, k) IN
              Text(NoError, format_formula(scaled), scaled, k)

molecular_formula(p, empirical_formula, target_molar_mass) ==
    LET parsed == parse_formula(empirical_formula) IN
    IF parsed.err # NoError THEN Text(parsed.err, <<>>, EmptyCounts, 0)
    ELSE LET emp_mm == MassOfCounts(p, parsed.counts) IN
         IF emp_mm.err # NoError THEN Text(emp_mm.err, <<>>, parsed.counts, 0)
         ELSE ScaleToTarget(parsed.counts, emp_mm.val, target_molar_mass)

-----------------------------------------------------------------------------
(* empirical_formula_from_pairs                                            *)

Pair(sym, val) == [sym |-> sym, val |-> val]

\* The probe sequence of line 142.
ProbeFactors == <<1, 2, 3, 4, 5, 6, 8, 10>>

\* The default tolerance 0.05 as tn / td.
DefaultTolerance == [tn |-> 1, td |-> 20]

\* moles: (sym, grams / mm) as [sym, num, den]; every symbol's weight known.
Moles(p, pairs) ==
    [j \in 1..Len(pairs) |->
        [sym |-> pairs[j].sym, num |-> pairs[j].val,
         den |-> get_atomic_weight(p, pairs[j].sym).val]]

\* a.num / a.den < b.num / b.den
RatLess(a, b) == a.num * b.den < b.num * a.den

\* ratios: (sym, v / minmol), minmol = min(v for _, v in moles if v > 0) = moles[m].
Ratios(moles, m) ==
    [j \in 1..Len(moles) |->
        [sym |-> moles[j].sym, num |-> moles[j].num * moles[m].den,
         den |-> moles[j].den * moles[m].num]]

\* n = round(r * k) of each ratio.
Scaled(ratios, k) == [j \in 1..Len(ratios) |-> PyRound(ratios[j].num * k, ratios[j].den)]

\* "if n == 0 or abs(x - n) > tolerance: ok = False"
Rejects(r, k, n, tol) == n = 0 \/ FartherThan(r.num * k, r.den, n, tol.tn, tol.td)

ProbeOk(ratios, k, tol) ==
    \A j \in 1..Len(ratios) : ~Rejects(ratios[j], k, Scaled(ratios, k)[j], tol)

\* counts accumulated from the list rounded (lines 150-152).
RECURSIVE Accumulate(_, _, _)
Accumulate(ratios, ns, j) ==
    IF j = 0 THEN EmptyCounts
    ELSE AddCount(Accumulate(ratios, ns, j - 1), ratios[j].sym, ns[j])

\* max(1, int(round(r))) of each ratio.
FallbackN(ratios) ==
    [j \in 1..Len(ratios) |->
        LET n == PyRound(ratios[j].num, ratios[j].den) IN IF n < 1 THEN 1 ELSE n]

\* The dict comprehension of line 154: a later pair of a symbol replaces an earlier one.
FallbackCounts(ratios) ==
    LET ns == FallbackN(ratios) IN
    [sym \in {ratios[j].sym : j \in 1..Len(ratios)} |->
        ns[CHOOSE j \in 1..Len(ratios) :
              /\ ratios[j].sym = sym
              /\ \A h \in 1..Len(ratios) : ratios[h].sym = sym => h <= j]]

\* Lines 142-155: the first accepted probe factor, or the fallback (k = 0).
RoundRatios(ratios, tol) ==
    LET accepted == {f \in 1..Len(ProbeFactors) : ProbeOk(ratios, ProbeFactors[f], tol)} IN
    IF accepted # {}
    THEN LET f == CHOOSE g \in accepted : \A h \in accepted : g <= h
             k == ProbeFactors[f]
             counts == Accumulate(ratios, Scaled(ratios, k), Len(ratios))
         IN Text(NoError, format_formula(counts), counts, k)
    ELSE LET counts == FallbackCounts(ratios) IN
         Text(NoError, format_formula(counts), counts, 0)

\* The index of minmol = min(v for _, v in moles if v > 0); 0 when no v is positive.
MinMolIndex(moles) ==
    LET positive == {j \in 1..Len(moles) : moles[j].num > 0} IN
    IF positive = {} THEN 0
    ELSE CHOOSE j \in positive : \A h \in positive : ~RatLess(moles[h], moles[j])

empirical_formula_from_pairs(p, pairs, tol) ==
    IF pairs # <<>> /\ ~p.loaded THEN Text(DataProviderUnavailable, <<>>, EmptyCounts, 0)
    ELSE IF \E j \in 1..Len(pairs) : get_atomic_weight(p, pairs[j].sym).err # NoError
        THEN Text(UnknownElement, <<>>, EmptyCounts, 0)
    ELSE LET moles == Moles(p, pairs)
             m == MinMolIndex(moles)
         IN IF m = 0 THEN Text(NoPositiveQuantity, <<>>, EmptyCounts, 0)
            ELSE RoundRatios(Ratios(moles, m), tol)

-----------------------------------------------------------------------------
(* Inputs                                                                  *)

\* Longest formula text drawn from FormulaChars.
MaxLen == 4

\* Longest formula text given to the stoichiometry routines.
MaxStoichLen == 3

\* Longest list of (symbol, value) pairs.
MaxPairs == 2

FormulaChars == {"C", "H", "u", "0", "1", "2", "(", "]", ".", " "}

TextsUpTo(n) == UNION {[1..m -> FormulaChars] : m \in 0..n}

\* EXAMPLES (lines 192-198, without the calcium one: Ca is not among the model's
\* elements) and the formulas of the worked examples (lines 414-448).
CopperSulfate == <<"C", "u", "S", "O", "4", "·", "5", "H", "2", "O">>

ExampleFormulas ==
    { <<"H", "2", "O">>,
      <<"C", "6", "H", "1", "2", "O", "6">>,
      CopperSulfate,
      <<"(", "N", "H", "4", ")", "2", "S", "O", "4">>,
      <<"C", "H", "2", "O">>,
      <<"C", "O", "2">> }

\* Further texts: nested groups, a leading coefficient on a group, zero multipliers,
\* stray and mismatched brackets, blanks.
ProbeFormulas ==
    { <<"(", "O", "H", ")", "0">>,
      <<"(", "O", "H", "]">>,
      <<"2", "(", "N", "H", "4", "}", "3">>,
      <<"C", "u", "(", "(", "O", "H", ")", "2", "]", "2">>,
      <<"C", "u", "(", "O", "H">>,
      <<"C", "u", "S", "O", "4", ".", "H", "2", "O", ")">>,
      <<"H", "2", " ", "O">>,
      <<"H", "2", " ", "2">>,
      <<"C", "u", "H", "1", "2", "C", "1">> }

Formulas == TextsUpTo(MaxLen) \cup ExampleFormulas \cup ProbeFormulas

StoichFormulas == TextsUpTo(MaxStoichLen) \cup ExampleFormulas \cup ProbeFormulas

\* Target molar masses, in hundredths of g/mol (180.16 g/mol is 18016).
Targets == {0 - 202, 0, 101, 202, 410, 411, 1201, 18016}

PairSymbols == {<<"H">>, <<"O">>, <<"D">>}

PairValues == {0 - 1600, 0, 101, 707, 1010, 1600}

\* Example 4 (line 438): C = 40.00, H = 6.71, O = 53.29.
ExamplePairs == <<Pair(<<"C">>, 4000), Pair(<<"H">>, 671), Pair(<<"O">>, 5329)>>

PairLists ==
    UNION {[1..m -> {Pair(sym, val) : sym \in PairSymbols, val \in PairValues}] : m \in 0..MaxPairs}
    \cup {ExamplePairs}

WeightSymbols == {<<"D">>, <<"H">>, <<"O">>, <<"C", "u">>, <<"N", "a">>}

PtModules ==
    { PtModule(FALSE, NoTable), PtModule(TRUE, StdTable),
      PtModule(TRUE, AltTable), PtModule(TRUE, NoDTable) }

-----------------------------------------------------------------------------
(* The program: the module is imported (pt is bound once), then the        *)
(* presentation layer calls the core's functions and renders each result.  *)

Idle == [op |-> "idle"]

\* The interpreter's state of a parse_formula call that is executed statement by
\* statement: the tokens, the shared cursor i, the frames of the parse_unit calls
\* in progress (innermost last), the value a parse_unit call has just returned,
\* and the numbers of loop iterations begun and of parse_unit calls made so far.
Run(status, tokens, i, stack, ret, iters, calls) ==
    [status |-> status, tokens |-> tokens, i |-> i, stack |-> stack, ret |-> ret,
     iters |-> iters, calls |-> calls]

NotRunning == Run("idle", <<>>, 0, <<>>, EmptyCounts, 0, 0)

Init ==
    /\ pt \in PtModules
    /\ call = Idle
    /\ result = [err |-> NoError]
    /\ run = NotRunning

CallTokenize ==
    /\ call = Idle
    /\ \E formula \in StoichFormulas :
        /\ call' = [op |-> "tokenize", formula |-> formula]
        /\ result' = tokenize(formula)
    /\ UNCHANGED <<pt, run>>

CallParseFormula ==
    /\ call = Idle
    /\ \E formula \in Formulas :
        /\ call' = [op |-> "parse_formula", formula |-> formula]
        /\ result' = parse_formula(formula)
    /\ UNCHANGED <<pt, run>>

CallGetAtomicWeight ==
    /\ call = Idle
    /\ \E symbol \in WeightSymbols :
        /\ call' = [op |-> "get_atomic_weight", symbol |-> symbol]
        /\ result' = get_atomic_weight(pt, symbol)
    /\ UNCHANGED <<pt, run>>

CallMolarMass ==
    /\ call = Idle
    /\ \E formula \in StoichFormulas :
        /\ call' = [op |-> "molar_mass", formula |-> formula]
        /\ result' = molar_mass(pt, formula)
    /\ UNCHANGED <<pt, run>>

CallPercentComposition ==
    /\ call = Idle
    /\ \E formula \in StoichFormulas :
        /\ call' = [op |-> "percent_composition", formula |-> formula]
        /\ result' = percent_composition(pt, formula)
    /\ UNCHANGED <<pt, run>>

CallEmpiricalFormula ==
    /\ call = Idle
    /\ \E pairs \in PairLists :
        /\ call' = [op |-> "empirical_formula_from_pairs", pairs |-> pairs]
        /\ result' = empirical_formula_from_pairs(pt, pairs, DefaultTolerance)
    /\ UNCHANGED <<pt, run>>

CallMolecularFormula ==
    /\ call = Idle
    /\ \E formula \in StoichFormulas, target \in Targets :
        /\ call' = [op |-> "molecular_formula", formula |-> formula, target |-> target]
        /\ result' = molecular_formula(pt, formula, target)
    /\ UNCHANGED <<pt, run>>

\* The result (a value or the caught exception's message) is rendered.
Render ==
    /\ call # Idle
    /\ call' = Idle
    /\ result' = [err |-> NoError]
    /\ UNCHANGED <<pt, run>>

Next ==
    \/ CallTokenize
    \/ CallParseFormula
    \/ CallGetAtomicWeight
    \/ CallMolarMass
    \/ CallPercentComposition
    \/ CallEmpiricalFormula
    \/ CallMolecularFormula
    \/ Render

Spec == Init /\ [][Next]_vars
-----------------------------------------------------------------------------
(* parse_formula executed statement by statement                           *)

\* Longest formula text whose parse is followed step by step.
MaxStepLen == 4

StepFormulas == TextsUpTo(MaxStepLen) \cup ExampleFormulas \cup ProbeFormulas

\* A parse_unit call in progress: where it resumes ("loop": at the while test;
\* "dot": after the call of line 72; "group": after the call of line 84 or 105),
\* its local counts, and the leading coefficient mult of the group it opened.
Frame(pc, counts, mult) == [pc |-> pc, counts |-> counts, mult |-> mult]

TopFrame(r) == r.stack[Len(r.stack)]

\* The frames of r with the innermost one replaced by f.
WithTop(r, f) == [r.stack EXCEPT ![Len(r.stack)] = f]

\* The innermost call is at the while test of line 66.
AtLoop(r) == r.status = "run" /\ TopFrame(r).pc = "loop"

\* A call has just returned to a caller that waits at pc.
Returned(r, pc) == r.status = "ret" /\ r.stack # <<>> /\ TopFrame(r).pc = pc

\* "return counts" of the innermost call: its frame is popped.
ReturnFrom(r, counts) ==
    [r EXCEPT !.status = "ret", !.stack = SubSeq(r.stack, 1, Len(r.stack) - 1),
              !.ret = counts]

\* "i += 1; right = parse_unit()" of the dot branch (lines 71-72) without the "i += 1".
EnterDotNoAdvance(r) ==
    [r EXCEPT !.stack = Append(WithTop(r, [TopFrame(r) EXCEPT !.pc = "dot"]),
                               Frame("loop", EmptyCounts, 1)),
              !.iters = r.iters + 1, !.calls = r.calls + 1]

\* "i += 1; right = parse_unit()" of the dot branch (lines 71-72).
EnterDot(r) ==
    [r EXCEPT !.i = r.i + 1,
              !.stack = Append(WithTop(r, [TopFrame(r) EXCEPT !.pc = "dot"]),
                               Frame("loop", EmptyCounts, 1)),
              !.iters = r.iters + 1, !.calls = r.calls + 1]

\* "i += 1; inner = parse_unit()" after an opener, skip tokens consumed up to and
\* including the opener (1: lines 83-84; 2 with a leading coefficient: lines 94, 104-105).
EnterGroup(r, skip, mult) ==
    [r EXCEPT !.i = r.i + skip,
              !.stack = Append(WithTop(r, [TopFrame(r) EXCEPT !.pc = "group", !.mult = mult]),
                               Frame("loop", EmptyCounts, 1)),
              !.iters = r.iters + 1, !.calls = r.calls + 1]

\* An element with its optional count, el at token position at (0-based), times mult.
TakeElement(r, at, mult) ==
    LET n == OptNumber(r.tokens, at + 1) IN
    [r EXCEPT !.i = n.i,
              !.stack = WithTop(r, [TopFrame(r) EXCEPT
                            !.counts = AddCount(@, r.tokens[at + 1].val, mult * n.mult)]),
              !.iters = r.iters + 1]

\* The call raises: every frame is unwound.
Raise(r, i) == [r EXCEPT !.status = "raised", !.i = i, !.stack = <<>>]

\* The while test fails (line 66): the call returns its counts (line 116).
LoopEnd ==
    /\ AtLoop(run)
    /\ KindAt(run.tokens, run.i) = "end"
    /\ run' = ReturnFrom(run, TopFrame(run).counts)
    /\ UNCHANGED <<pt, call, result>>

\* Lines 68-69: a closing bracket ends the unit; the cursor stays on it.
IterateRParen ==
    /\ AtLoop(run)
    /\ KindAt(run.tokens, run.i) = "rparen"
    /\ run' = [ReturnFrom(run, TopFrame(run).counts) EXCEPT !.iters = run.iters + 1]
    /\ UNCHANGED <<pt, call, result>>

\* Lines 70-72: a dot; the unit after it is parsed by a nested call.
IterateDot ==
    /\ AtLoop(run)
    /\ KindAt(run.tokens, run.i) = "dot"
    /\ run' = EnterDot(run)
    /\ UNCHANGED <<pt, call, result>>

\* Lines 75-81: an element and its optional count.
IterateElem ==
    /\ AtLoop(run)
    /\ KindAt(run.tokens, run.i) = "elem"
    /\ run' = TakeElement(run, run.i, 1)
    /\ UNCHANGED <<pt, call, result>>

\* Lines 82-84: an opener; the group is parsed by a nested call.
IterateLParen ==
    /\ AtLoop(run)
    /\ KindAt(run.tokens, run.i) = "lparen"
    /\ run' = EnterGroup(run, 1, 1)
    /\ UNCHANGED <<pt, call, result>>

\* Lines 93-105: a leading coefficient, then an element or an opener.
IterateNumber ==
    /\ AtLoop(run)
    /\ KindAt(run.tokens, run.i) = "number"
    /\ LET mult == int(run.tokens[run.i + 1].val)
           next == KindAt(run.tokens, run.i + 1)
       IN IF next \notin {"elem", "lparen"}
          THEN /\ run' = [Raise(run, run.i + 1) EXCEPT !.iters = run.iters + 1]
               /\ result' = Unit(DanglingMultiplier, TopFrame(run).counts, run.i + 1)
          ELSE /\ run' = IF next = "elem" THEN TakeElement(run, run.i + 1, mult)
                         ELSE EnterGroup(run, 2, mult)
               /\ UNCHANGED result
    /\ UNCHANGED <<pt, call>>

\* Lines 73-74: the unit after the dot is merged in and the loop is left.
ResumeDot ==
    /\ Returned(run, "dot")
    /\ run' = ReturnFrom(run, merge_counts(TopFrame(run).counts, run.ret))
    /\ UNCHANGED <<pt, call, result>>

\* Lines 85-92 and 106-113: the closing bracket, the optional multiplier, the merge.
ResumeGroup ==
    /\ Returned(run, "group")
    /\ IF ~ClosesGroup(run.tokens, run.i)
       THEN /\ run' = Raise(run, run.i)
            /\ result' = Unit(UnclosedGroup, TopFrame(run).counts, run.i)
       ELSE /\ LET n == OptNumber(run.tokens, run.i + 1) IN
               run' = [run EXCEPT
                         !.status = "run", !.i = n.i,
                         !.stack = WithTop(run, Frame("loop",
                             merge_counts(TopFrame(run).counts,
                                 multiply_counts(run.ret, TopFrame(run).mult * n.mult)), 1))]
            /\ UNCHANGED result
    /\ UNCHANGED <<pt, call>>

\* Lines 117-120: the top-level call has returned.
FinishParse ==
    /\ run.status = "ret"
    /\ run.stack = <<>>
    /\ LET total == TopLevelCheck(run.tokens, Unit(NoError, run.ret, run.i)) IN
        /\ result' = total
        /\ run' = [run EXCEPT !.status = IF total.err = NoError THEN "done" ELSE "raised"]
    /\ UNCHANGED <<pt, call>>

StepNext ==
    \/ LoopEnd
    \/ IterateRParen
    \/ IterateDot
    \/ IterateElem
    \/ IterateLParen
    \/ IterateNumber
    \/ ResumeDot
    \/ ResumeGroup
    \/ FinishParse

\* parse_formula is entered with a formula text (lines 60-62) and, when the text
\* tokenizes, calls parse_unit (line 117).  parse_formula never reads pt: one
\* successful import stands for all of them.
StepInit ==
    /\ pt = PtModule(TRUE, StdTable)
    /\ \E formula \in StepFormulas :
        LET t == tokenize(formula) IN
        /\ call = [op |-> "parse_formula", formula |-> formula]
        /\ IF t.err # NoError
           THEN /\ run = Run("raised", t.tokens, 0, <<>>, EmptyCounts, 0, 0)
                /\ result = Unit(t.err, EmptyCounts, 0)
           ELSE /\ run = Run("run", t.tokens, 0, <<Frame("loop", EmptyCounts, 1)>>,
                             EmptyCounts, 0, 1)
                /\ result = [err |-> NoError]

\* The interpreter executes a call without pause until it returns or raises.
StepSpec == StepInit /\ [][StepNext]_vars /\ WF_vars(StepNext)

-----------------------------------------------------------------------------
(* Properties of parse_formula and format_formula                          *)

Parsed == call.op = "parse_formula" /\ result.err = NoError

\* C1: parse_formula("CuSO4·5H2O") returns exactly {Cu:1, S:1, O:9, H:10}: the
\* part after the dot contributes five whole water units (H:10 and O:5).
C1_CopperSulfatePentahydrate ==
    (call.op = "parse_formula" /\ call.formula = CopperSulfate) =>
        /\ result.err = NoError
        /\ result.counts =
             (<<"C", "u">> :> 1) @@ (<<"S">> :> 1) @@ (<<"O">> :> 9) @@ (<<"H">> :> 10)

\* C2: whenever parse_formula succeeds on a text, formatting the resulting map and
\* parsing that text again succeeds and yields the same element-to-count map.
C2_FormatThenParse ==
    Parsed =>
        LET again == parse_formula(format_formula(result.counts)) IN
        /\ again.err = NoError
        /\ again.counts = result.counts

\* A parsed text with adjacent one- and two-letter symbols and a count of several
\* digits, whose canonical text differs from the text given.
C2_Witness ==
    /\ Parsed
    /\ {<<"C">>, <<"C", "u">>} \subseteq DOMAIN result.counts
    /\ \E el \in DOMAIN result.counts : result.counts[el] >= 10
    /\ format_formula(result.counts) # call.formula

\* C3: every map parse_formula returns has only strictly positive values.
C3_PositiveCounts ==
    Parsed => \A el \in DOMAIN result.counts : result.counts[el] > 0

-----------------------------------------------------------------------------
(* Properties of the stoichiometry routines                                *)

\* C4: percent_composition fails with ZeroMolarMass whenever the total molar mass
\* of the parsed formula is zero, the empty formula text included.
C4_ZeroMolarMassGuard ==
    (/\ call.op = "percent_composition"
     /\ molar_mass(pt, call.formula) = Weight(NoError, 0)) =>
        result.err = ZeroMolarMass

\* The ratios moles / minmol the routine computes for the pairs of the current call.
CallRatios ==
    LET moles == Moles(pt, call.pairs) IN Ratios(moles, MinMolIndex(moles))

EmpiricalDone == call.op = "empirical_formula_from_pairs" /\ result.err = NoError

\* The integer count the routine computes for pair j: round(ratio * k) under an
\* accepted factor k, max(1, round(ratio)) in the fallback (k = 0).
PairCount(j) ==
    IF result.k # 0 THEN Scaled(CallRatios, result.k)[j] ELSE FallbackN(CallRatios)[j]

RECURSIVE SumOfSymbol(_, _)
SumOfSymbol(sym, j) ==
    IF j = 0 THEN 0
    ELSE SumOfSymbol(sym, j - 1) + (IF call.pairs[j].sym = sym THEN PairCount(j) ELSE 0)

\* C5: the count of a symbol in the returned formula is the sum of the counts
\* computed for each of its pairs, under an accepted factor and in the fallback.
C5_DuplicateSymbolsAccumulate ==
    EmpiricalDone =>
        \A sym \in DOMAIN result.counts :
            result.counts[sym] = SumOfSymbol(sym, Len(call.pairs))

\* "every element's round(ratio * k) is at least 1 and within tolerance of ratio * k"
Passes(ratios, k, tol) ==
    \A j \in 1..Len(ratios) :
        LET n == PyRound(ratios[j].num * k, ratios[j].den) IN
        /\ n >= 1
        /\ ~FartherThan(ratios[j].num * k, ratios[j].den, n, tol.tn, tol.td)

\* C6: the factor used is the first of 1,2,3,4,5,6,8,10 for which every rounded
\* value is at least 1 and within tolerance; a factor with a rounded value below 1
\* is never accepted, so every count produced by an accepted factor is >= 1.
C6_AcceptedFactorGivesPositiveCounts ==
    (EmpiricalDone /\ result.k # 0) =>
        /\ \E f \in 1..Len(ProbeFactors) :
              /\ ProbeFactors[f] = result.k
              /\ Passes(CallRatios, result.k, DefaultTolerance)
              /\ \A g \in 1..(f - 1) : ~Passes(CallRatios, ProbeFactors[g], DefaultTolerance)
        /\ \A sym \in DOMAIN result.counts : result.counts[sym] >= 1

\* C7: for every empirical formula text that parses (its elements' weights being
\* available), molecular_formula has exactly two outcomes: NotIntegerMultiple when
\* k = round(target / mass) <= 0 or |target / mass - k| > 0.03, and otherwise the
\* formatted map of the empirical counts multiplied by k.
C7_TwoOutcomes ==
    (/\ call.op = "molecular_formula"
     /\ parse_formula(call.formula).err = NoError
     /\ MassOfCounts(pt, parse_formula(call.formula).counts).err = NoError) =>
        LET emp == parse_formula(call.formula).counts IN
        \/ result.err = NotIntegerMultiple
        \/ /\ result.err = NoError
           /\ result.k >= 1
           /\ result.text = format_formula(multiply_counts(emp, result.k))

-----------------------------------------------------------------------------
(* Brackets, read off the token sequence alone                             *)

CallTokens == tokenize(call.formula).tokens

Tokenized == call.op = "parse_formula" /\ tokenize(call.formula).err = NoError

\* Openers minus closers among the first j tokens.
RECURSIVE Depth(_, _)
Depth(tokens, j) ==
    IF j = 0 THEN 0
    ELSE Depth(tokens, j - 1)
         + (IF tokens[j].kind = "lparen" THEN 1 ELSE IF tokens[j].kind = "rparen" THEN 0 - 1 ELSE 0)

\* No closing bracket comes without an opener before it to close.
NoExtraCloser(tokens) == \A j \in 1..Len(tokens) : Depth(tokens, j) >= 0

\* Token j is a number that is no multiplier suffix (it follows neither an element
\* nor a closing bracket) and no element or opener follows it.
Dangling(tokens, j) ==
    /\ tokens[j].kind = "number"
    /\ (j = 1 \/ tokens[j - 1].kind \in {"dot", "lparen", "number"})
    /\ (j = Len(tokens) \/ tokens[j + 1].kind \notin {"elem", "lparen"})

NoDangling(tokens) == \A j \in 1..Len(tokens) : ~Dangling(tokens, j)

\* Some opener has no closing bracket after its nested unit, and the text has no
\* other defect: every nested unit is parsed up to the place of its closer.
OpenerLeftUnclosed(tokens) ==
    /\ NoExtraCloser(tokens)
    /\ NoDangling(tokens)
    /\ Depth(tokens, Len(tokens)) > 0

\* The text with every bracket replaced by the round one of its kind.
RoundBrackets(formula) ==
    [j \in 1..Len(formula) |->
        IF formula[j] \in LParenChars THEN "("
        ELSE IF formula[j] \in RParenChars THEN ")"
        ELSE formula[j]]

\* C8: parse_formula fails with UnclosedGroup whenever an opener (of any family,
\* with or without a leading coefficient) is not followed, after its nested unit,
\* by a closing bracket; it never returns a result for such a text; and the
\* bracket families do not matter: any closer closes any opener.
C8_UnclosedGroup ==
    Tokenized =>
        /\ OpenerLeftUnclosed(CallTokens) => result.err = UnclosedGroup
        /\ result.err = NoError => Depth(CallTokens, Len(CallTokens)) = 0
        /\ result = parse_formula(RoundBrackets(call.formula))

\* A round group closed by a square bracket, then an opener after a leading
\* coefficient that is left unclosed at the end of the text.
C8_Witness ==
    /\ Tokenized
    /\ \E j \in 2..Len(CallTokens) :
          /\ CallTokens[j].val = <<"]">>
          /\ \A h \in 1..(j - 1) : CallTokens[h].kind = "lparen" => CallTokens[h].val = <<"(">>
    /\ \E j \in 1..(Len(CallTokens) - 1) :
          CallTokens[j].kind = "number" /\ CallTokens[j + 1].kind = "lparen"
    /\ OpenerLeftUnclosed(CallTokens)
    /\ result.err = UnclosedGroup

\* C9: parse_formula never returns a result while tokens remain: when the top-level
\* unit stops before the end of the tokens, the token at the cursor is a closing
\* bracket and parsing fails with ExtraClosingParen; on success the cursor equals
\* the number of tokens.
C9_AllTokensConsumed ==
    Tokenized =>
        LET total == parse_unit(CallTokens, 0) IN
        /\ (total.err = NoError /\ total.i < Len(CallTokens)) =>
              /\ CallTokens[total.i + 1].kind = "rparen"
              /\ result.err = ExtraClosingParen
        /\ result.err = NoError => result.i = Len(CallTokens)

\* The top-level unit ends with a hydrate part and stops at a stray closing bracket.
C9_Witness ==
    /\ Tokenized
    /\ \E j \in 1..Len(CallTokens) : CallTokens[j].kind = "dot"
    /\ LET total == parse_unit(CallTokens, 0) IN
          /\ total.err = NoError
          /\ 0 < total.i /\ total.i < Len(CallTokens)
    /\ result.err = ExtraClosingParen

-----------------------------------------------------------------------------
(* Properties of get_atomic_weight                                         *)

DeuteriumCall == call.op = "get_atomic_weight" /\ call.symbol = <<"D">>

\* C10: get_atomic_weight("D") returns 2.01410177812 whatever the table contains
\* and whether or not the periodictable import succeeded.
C10_DeuteriumAlways ==
    DeuteriumCall => result = Weight(NoError, D_MASS)

\* C10, amended: when the import succeeded, get_atomic_weight("D") returns the
\* deuterium constant whatever the table contains; when it failed (pt is None),
\* the call raises the missing-library error like every other symbol.
C10_DeuteriumWhenLoaded ==
    DeuteriumCall =>
        /\ pt.loaded => result = Weight(NoError, D_MASS)
        /\ ~pt.loaded => result.err = DataProviderUnavailable

\* The table has an entry D with another mass, and the constant is returned.
C10_Witness ==
    /\ DeuteriumCall
    /\ pt.loaded
    /\ <<"D">> \in DOMAIN pt.mass /\ pt.mass[<<"D">>] # D_MASS
    /\ result = Weight(NoError, D_MASS)

-----------------------------------------------------------------------------
(* Properties of the statement-by-statement parse                          *)

Finished == run.status \in {"done", "raised"}

\* The statement-by-statement parse ends with what parse_formula returns or raises.
StepsAgreeWithParseFormula ==
    Finished => result = parse_formula(call.formula)

\* The step begins an iteration of the parse_unit loop.
BeginsIteration == run'.iters = run.iters + 1

\* The step leaves the loop of the innermost call: that call returns.
ExitsLoop == run'.status = "ret" /\ Len(run'.stack) < Len(run.stack)

\* The numbers of loop iterations and of recursive parse_unit calls (every call
\* but the top-level one) never exceed the number of tokens.
WorkBoundedByTokens ==
    /\ run.iters <= Len(run.tokens)
    /\ run.calls - 1 <= Len(run.tokens)
    /\ run.i <= Len(run.tokens)

\* C11: for every token sequence parsing terminates, with a result or an error:
\* the cursor shared by the parse_unit calls never decreases; every iteration of
\* the parse_unit loop advances the cursor by at least one token, exits the loop
\* or raises; and the numbers of loop iterations and of recursive calls are
\* bounded by the number of tokens.
C11_ParsingTerminates ==
    /\ [][run'.i >= run.i]_vars
    /\ [][BeginsIteration => (run'.i > run.i \/ ExitsLoop \/ run'.status = "raised")]_vars
    /\ []WorkBoundedByTokens
    /\ <>Finished

\* A parse with nested calls has ended after as many iterations as there are
\* tokens, some of which advanced the cursor and some of which left a loop.
C11_Witness ==
    /\ run.status = "done"
    /\ run.calls >= 3
    /\ run.iters = Len(run.tokens)
    /\ run.i = Len(run.tokens)
    /\ \E j \in 1..Len(run.tokens) : run.tokens[j].kind = "rparen"
====
